---- MODULE Spec2Model ----
(***************************************************************************)
(* Model of main.py: the download endpoint, the fallback resolution of the *)
(* staged file, the age-based cleanup of the temp and downloads            *)
(* directories, and the file retrieval endpoint.                           *)
(*                                                                         *)
(* Time is counted in whole hours (the unit of CLEANUP_INTERVAL_HOURS).    *)
(* A request handler is an "async def" without an await in it, so it runs  *)
(* to its end on the event loop before any other handler: each handler is  *)
(* one action.  cleanup_old_files is a plain function handed to            *)
(* BackgroundTasks: it runs on a worker thread after the response, so its  *)
(* file-system calls interleave with the handlers and with other sweeps.   *)
(* A FileResponse opens its file only after get_file has returned, so the  *)
(* streaming is a step of its own.                                         *)
(***************************************************************************)
EXTENDS Integers, FiniteSets, Sequences, TLC

\* ---------------------------------------------------------------- bounds
MaxJobs == 2        \* download requests over the run
MaxTime == 2        \* hours the clock may advance
MaxProduced == 2    \* files one collaborator run leaves under its prefix
MaxSweeps == 1      \* worker threads running cleanup_old_files at once
MaxGets == 1        \* retrieval requests in flight at once

\* ------------------------------------------------------- program constants
CLEANUP_INTERVAL_HOURS == 1

Jobs == 1..MaxJobs
Sweeps == 1..MaxSweeps
Gets == 1..MaxGets

\* Extensions the collaborator may leave under the output template; "part"
\* is a byproduct, not a media file.
Exts == {"mp4", "mp3", "part"}
\* format_type of the request: "mp3", or anything else (video).
Formats == {"mp3", "mp4"}

\* A staged file dl_<uuid8>_<id>.<ext> is named by its job's uuid prefix and
\* its extension; a served file dl_<time>_<uuid6><suffix> by the uuid of the
\* request that moved it there and the suffix it kept.
Names == Jobs \X Exts
NoName == <<0, "none">>

VARIABLES
    now,        \* the clock, in hours
    temp,       \* TEMP_DIR: name -> modification time
    downloads,  \* DOWNLOAD_DIR: name -> modification time
    nextJob,    \* the next download request (its uuids are fresh)
    resp,       \* the latest download request: what the handler did and answered
    queued,     \* cleanup tasks added to BackgroundTasks and not yet started
    sw,         \* per worker thread: the sweep it is running
    get         \* per retrieval request: its position and outcome

vars == <<now, temp, downloads, nextJob, resp, queued, sw, get>>

\* ------------------------------------------------------------- helpers
Remove(f, x) == [y \in DOMAIN f \ {x} |-> f[y]]

NoResp ==
    [id |-> 0, state |-> "none", fetched |-> FALSE, raised |-> FALSE,
     produced |-> {}, picked |-> NoName, file |-> NoName]

IdleSweep ==
    [pc |-> "idle", cutoff |-> 0, todo |-> {}, cur |-> NoName,
     startT |-> {}, startD |-> {}]

IdleGet == [st |-> "idle", name |-> NoName]

\* ------------------------------------------------- download_video_logic
\* final_ext, line 176
final_ext(format_type) == IF format_type = "mp3" THEN "mp3" ELSE "mp4"

\* final_path, lines 175-177: the prefix of the output template (line 96)
\* with the extension the post-processor is expected to leave.
final_path(j, format_type) == <<j, final_ext(format_type)>>

\* ydl.extract_info(url, download=True), line 170: the collaborator writes
\* the files `produced` under the job's prefix.
extract_info(tmp, j, produced) ==
    [f \in DOMAIN tmp \cup {<<j, e>> : e \in produced} |->
        IF f \in DOMAIN tmp THEN tmp[f] ELSE now]

\* TEMP_DIR.glob(f"*{uuid.uuid4().hex[:4]}*"), line 181: the files whose name
\* holds four fresh random hex digits.  tok = 0 is a token no name holds;
\* tok = k one found in the uuid prefix of job k's files.
GlobToken(tmp, tok) == {f \in DOMAIN tmp : f[1] = tok}

\* sorted(TEMP_DIR.glob("*"), key=os.path.getmtime, reverse=True)[0], line 184.
\* Handlers run one after another, so a later job's files are the more
\* recent; the order of two files of one run is not decided by the source.
MostRecent(tmp) == {f \in DOMAIN tmp : \A g \in DOMAIN tmp : f[1] >= g[1]}

\* Lines 179-190: the files download_video_logic may return as temp_file
\* (the directory listing's order decides among several); empty when it
\* raises "Arquivo nao encontrado".
Resolve(tmp, j, format_type, tok) ==
    IF final_path(j, format_type) \in DOMAIN tmp
    THEN {final_path(j, format_type)}
    ELSE IF GlobToken(tmp, tok) # {} THEN GlobToken(tmp, tok)
    ELSE MostRecent(tmp)

\* safe_filename, lines 239-241: a fresh uuid and the staged file's suffix.
safe_filename(j, tf) == <<j, tf[2]>>

\* shutil.move(temp_file, final_path), line 244: the file leaves the temp
\* directory and appears in the downloads directory, its modification time
\* kept.
\* Variant: the staged file is copied, not moved.
MoveOut_Copy(tmp, tf) == tmp

MoveOut(tmp, tf) == Remove(tmp, tf)

MoveIn(dls, tmp, tf, j) ==
    [d \in DOMAIN dls \cup {safe_filename(j, tf)} |->
        IF d = safe_filename(j, tf) THEN tmp[tf] ELSE dls[d]]

\* ------------------------------------------------------ cleanup_old_files
\* cutoff, line 197
Cutoff(t) == t - CLEANUP_INTERVAL_HOURS

\* f.is_file() and mtime < cutoff, line 200
Expired(dir, f, cutoff) == f \in DOMAIN dir /\ dir[f] < cutoff

\* ------------------------------------------------------------------ Init
Init ==
    /\ now = 0
    /\ temp = <<>>
    /\ downloads = <<>>
    /\ nextJob = 1
    /\ resp = NoResp
    /\ queued = 0
    /\ sw = [s \in Sweeps |-> IdleSweep]
    /\ get = [r \in Gets |-> IdleGet]

\* --------------------------------------------------------------- actions
\* Time passes.
Tick ==
    /\ now < MaxTime
    /\ now' = now + 1
    /\ UNCHANGED <<temp, downloads, nextJob, resp, queued, sw, get>>

\* POST /api/download, lines 234-255, where the collaborator raises (line 191
\* turns it into an HTTPException, line 253 into the 500 answer).
DownloadRaises(format_type, produced) ==
    /\ nextJob <= MaxJobs
    /\ temp' = extract_info(temp, nextJob, produced)
    /\ resp' = [NoResp EXCEPT !.id = nextJob, !.state = "failed",
                              !.fetched = TRUE, !.raised = TRUE,
                              !.produced = produced]
    /\ nextJob' = nextJob + 1
    /\ UNCHANGED <<now, downloads, queued, sw, get>>

\* POST /api/download where the collaborator returns and no staged file is
\* found (line 188: picked stays NoName), or shutil.move raises (line 244).
DownloadFails(format_type, produced, tok) ==
    /\ nextJob <= MaxJobs
    /\ LET tmp == extract_info(temp, nextJob, produced)
           found == Resolve(tmp, nextJob, format_type, tok)
       IN /\ temp' = tmp
          /\ \E tf \in found \cup {NoName} :
                /\ tf = NoName => found = {}
                /\ resp' = [NoResp EXCEPT !.id = nextJob, !.state = "failed",
                                          !.fetched = TRUE,
                                          !.produced = produced, !.picked = tf]
    /\ nextJob' = nextJob + 1
    /\ UNCHANGED <<now, downloads, queued, sw, get>>

\* POST /api/download, the success path: fetch, resolve, move, add the
\* cleanup task, answer with the download_url.
DownloadSucceeds(format_type, produced, tok) ==
    /\ nextJob <= MaxJobs
    /\ LET tmp == extract_info(temp, nextJob, produced)
       IN \E tf \in Resolve(tmp, nextJob, format_type, tok) :
             /\ temp' = MoveOut(tmp, tf)
             /\ downloads' = MoveIn(downloads, tmp, tf, nextJob)
             /\ resp' = [NoResp EXCEPT !.id = nextJob, !.state = "success",
                                       !.fetched = TRUE,
                                       !.produced = produced, !.picked = tf,
                                       !.file = safe_filename(nextJob, tf)]
    /\ queued' = queued + 1
    /\ nextJob' = nextJob + 1
    /\ UNCHANGED <<now, sw, get>>

Download ==
    \E format_type \in Formats, produced \in SUBSET Exts, tok \in 0..MaxJobs :
        /\ Cardinality(produced) <= MaxProduced
        /\ \/ DownloadRaises(format_type, produced)
           \/ DownloadFails(format_type, produced, tok)
           \/ DownloadSucceeds(format_type, produced, tok)

\* A worker thread takes a queued cleanup task: cutoff (line 197) and the
\* listing of TEMP_DIR (line 199, first directory).
SweepStart(s) ==
    /\ sw[s].pc = "idle"
    /\ queued > 0
    /\ queued' = queued - 1
    /\ sw' = [sw EXCEPT ![s] =
                [pc |-> "temp", cutoff |-> Cutoff(now), todo |-> DOMAIN temp,
                 cur |-> NoName, startT |-> DOMAIN temp,
                 startD |-> DOMAIN downloads]]
    /\ UNCHANGED <<now, temp, downloads, nextJob, resp, get>>

\* Line 200: the next listed file is tested; an expired one is to be unlinked.
SweepInspect(s) ==
    /\ sw[s].pc \in {"temp", "downloads"}
    /\ sw[s].cur = NoName
    /\ \E f \in sw[s].todo :
          LET dir == IF sw[s].pc = "temp" THEN temp ELSE downloads
          IN sw' = [sw EXCEPT ![s].todo = @ \ {f},
                              ![s].cur = IF Expired(dir, f, sw[s].cutoff)
                                         THEN f ELSE NoName]
    /\ UNCHANGED <<now, temp, downloads, nextJob, resp, queued, get>>

\* Line 201: f.unlink().  A file gone since the test raises, and the except of
\* line 202, which is around both loops, ends the sweep.
SweepUnlink(s) ==
    /\ sw[s].pc \in {"temp", "downloads"}
    /\ sw[s].cur # NoName
    /\ LET f == sw[s].cur
       IN IF sw[s].pc = "temp"
          THEN IF f \in DOMAIN temp
               THEN /\ temp' = Remove(temp, f)
                    /\ sw' = [sw EXCEPT ![s].cur = NoName]
                    /\ UNCHANGED downloads
               ELSE /\ sw' = [sw EXCEPT ![s].pc = "aborted"]
                    /\ UNCHANGED <<temp, downloads>>
          ELSE IF f \in DOMAIN downloads
               THEN /\ downloads' = Remove(downloads, f)
                    /\ sw' = [sw EXCEPT ![s].cur = NoName]
                    /\ UNCHANGED temp
               ELSE /\ sw' = [sw EXCEPT ![s].pc = "aborted"]
                    /\ UNCHANGED <<temp, downloads>>
    /\ UNCHANGED <<now, nextJob, resp, queued, get>>

\* Line 198: the loop over TEMP_DIR is over; DOWNLOAD_DIR is listed.
SweepNextDir(s) ==
    /\ sw[s].pc = "temp"
    /\ sw[s].cur = NoName
    /\ sw[s].todo = {}
    /\ sw' = [sw EXCEPT ![s].pc = "downloads", ![s].todo = DOMAIN downloads]
    /\ UNCHANGED <<now, temp, downloads, nextJob, resp, queued, get>>

\* Both loops are over: cleanup_old_files returns.
SweepFinish(s) ==
    /\ sw[s].pc = "downloads"
    /\ sw[s].cur = NoName
    /\ sw[s].todo = {}
    /\ sw' = [sw EXCEPT ![s].pc = "done"]
    /\ UNCHANGED <<now, temp, downloads, nextJob, resp, queued, get>>

\* The worker thread is free again.
SweepReturn(s) ==
    /\ sw[s].pc \in {"done", "aborted"}
    /\ sw' = [sw EXCEPT ![s] = IdleSweep]
    /\ UNCHANGED <<now, temp, downloads, nextJob, resp, queued, get>>

\* GET /api/file/{filename}, lines 257-268: 404 when the path does not exist,
\* else a FileResponse for it is returned.
GetFile(r, name) ==
    /\ get[r].st = "idle"
    /\ get' = [get EXCEPT ![r] =
                 [st |-> IF name \in DOMAIN downloads
                         THEN "streaming" ELSE "notfound",
                  name |-> name]]
    /\ UNCHANGED <<now, temp, downloads, nextJob, resp, queued, sw>>

\* The references a client asks for: a file being served, the reference of
\* the latest answer (which a sweep may have removed since), or one that
\* never existed.
Requested == DOMAIN downloads \cup {resp.file, NoName}

\* Variant: the file is deleted once it has been sent.
Stream_DeleteOnDownload(r) ==
    /\ get[r].st = "streaming"
    /\ get' = [get EXCEPT ![r].st = IF get[r].name \in DOMAIN downloads
                                    THEN "served" ELSE "error"]
    /\ downloads' = Remove(downloads, get[r].name)
    /\ UNCHANGED <<now, temp, nextJob, resp, queued, sw>>

\* The FileResponse of line 264 is sent: it stats and reads the file, and
\* raises when the file is no longer there.
Stream(r) ==
    /\ get[r].st = "streaming"
    /\ get' = [get EXCEPT ![r].st = IF get[r].name \in DOMAIN downloads
                                    THEN "served" ELSE "error"]
    /\ UNCHANGED <<now, temp, downloads, nextJob, resp, queued, sw>>

\* The client has its answer.
GetReturn(r) ==
    /\ get[r].st \in {"notfound", "served", "error"}
    /\ get' = [get EXCEPT ![r] = IdleGet]
    /\ UNCHANGED <<now, temp, downloads, nextJob, resp, queued, sw>>

Next ==
    \/ Tick
    \/ Download
    \/ \E s \in Sweeps : SweepStart(s)
    \/ \E s \in Sweeps : SweepInspect(s)
    \/ \E s \in Sweeps : SweepUnlink(s)
    \/ \E s \in Sweeps : SweepNextDir(s)
    \/ \E s \in Sweeps : SweepFinish(s)
    \/ \E s \in Sweeps : SweepReturn(s)
    \/ \E r \in Gets, name \in Requested : GetFile(r, name)
    \/ \E r \in Gets : Stream(r)
    \/ \E r \in Gets : GetReturn(r)

Spec == Init /\ [][Next]_vars

\* Scheduling: a queued background task is run and runs on, a response that
\* was returned is sent, the clock advances.  Clients are free never to send
\* a request, so no fairness is put on Download or GetFile.
Fairness ==
    /\ WF_vars(Tick)
    /\ \A s \in Sweeps :
          /\ WF_vars(SweepStart(s))
          /\ WF_vars(SweepInspect(s))
          /\ WF_vars(SweepUnlink(s))
          /\ WF_vars(SweepNextDir(s))
          /\ WF_vars(SweepFinish(s))
          /\ WF_vars(SweepReturn(s))
    /\ \A r \in Gets : WF_vars(Stream(r)) /\ WF_vars(GetReturn(r))

FairSpec == Spec /\ Fairness

\* ------------------------------------------------------ type correctness
TypeOK ==
    /\ now \in 0..MaxTime
    /\ DOMAIN temp \subseteq Names
    /\ DOMAIN downloads \subseteq Names
    /\ \A f \in DOMAIN temp : temp[f] \in 0..now
    /\ \A f \in DOMAIN downloads : downloads[f] \in 0..now
    /\ nextJob \in 1..(MaxJobs + 1)
    /\ resp.id = nextJob - 1
    /\ queued \in 0..MaxJobs
    /\ \A s \in Sweeps : sw[s].pc \in {"idle", "temp", "downloads", "done", "aborted"}
    /\ \A r \in Gets : get[r].st \in {"idle", "streaming", "notfound", "served", "error"}

\* ---------------------------------------------------------------- claims
\* The handler answered a download request in this step.
Answered == resp'.id # resp.id

\* C1: the answer to a submission is produced before the job's fetch work
\* (download_video_logic) has run: no answer is given in a state where the
\* fetch of that request is already complete.
C1_AnswerPrecedesFetch == [][Answered => ~resp'.fetched]_vars

\* C2: the staged file a job resolves and relocates carries that job's own
\* prefix, never another job's.
C2_PicksOwnPrefix == resp.picked # NoName => resp.picked[1] = resp.id

\* The sweep of thread s at its cutoff finds f older than the window
\* (age > window), respectively younger (age < window).
Older(dir, f, s) == f \in DOMAIN dir /\ dir[f] < sw[s].cutoff
Younger(dir, f, s) == f \in DOMAIN dir /\ dir[f] > sw[s].cutoff

\* Files present since the start of sweep s, older than the window at its
\* cutoff, still there (so an unlink of them would succeed).
LeftT(s) == {f \in sw[s].startT : Older(temp, f, s)}
LeftD(s) == {f \in sw[s].startD : Older(downloads, f, s)}

\* C3: a sweep deletes no file younger than the retention window, and when
\* it ends every file of both directories that was older than the window has
\* been deleted by it.
C3_SweepAgePolicy ==
    [][\A s \in Sweeps :
          /\ \A f \in DOMAIN temp \ DOMAIN temp' :
                sw[s].cur = f /\ sw'[s].cur = NoName => ~Younger(temp, f, s)
          /\ \A f \in DOMAIN downloads \ DOMAIN downloads' :
                sw[s].cur = f /\ sw'[s].cur = NoName => ~Younger(downloads, f, s)
          /\ sw[s].pc \in {"temp", "downloads"} /\ sw'[s].pc \in {"done", "aborted"}
                => LeftT(s) = {} /\ LeftD(s) = {}]_vars

\* C4: a sweep that hit a failure on one file leaves no other expired file
\* behind.
C4_SweepSurvivesFailure ==
    \A s \in Sweeps : sw[s].pc = "aborted" => LeftT(s) = {} /\ LeftD(s) = {}

\* C5: whatever the jobs' outcomes, a file older than the retention window
\* is eventually deleted.
C5_ExpiredEventuallyDeleted ==
    \A f \in Names :
        /\ (f \in DOMAIN temp /\ now - temp[f] > CLEANUP_INTERVAL_HOURS)
              ~> (f \notin DOMAIN temp)
        /\ (f \in DOMAIN downloads /\ now - downloads[f] > CLEANUP_INTERVAL_HOURS)
              ~> (f \notin DOMAIN downloads)

\* C6: a job whose collaborator raised, or that left no file under the job's
\* prefix, is answered as failed, without a download_url.
C6_FailureGivesNoDescriptor ==
    resp.state # "none" /\ (resp.raised \/ resp.produced = {})
        => resp.state = "failed" /\ resp.file = NoName

\* C7: no retrieval request ends in an unhandled error.
C7_RetrievalNeverCrashes == \A r \in Gets : get[r].st # "error"

\* The media extensions among Exts.
MediaExts == {"mp4", "mp3"}

\* The collaborator left one media file and one byproduct.
MediaAndByproduct(produced) ==
    /\ Cardinality(produced) = 2
    /\ Cardinality(produced \cap MediaExts) = 1

\* C8: of one media file and one byproduct under the job's prefix, the media
\* file is the one resolved, and the byproduct is gone from the temp
\* directory after the resolution.
C8_MediaKeptByproductRemoved ==
    resp.state = "success" /\ MediaAndByproduct(resp.produced)
        => /\ resp.picked[1] = resp.id
           /\ resp.picked[2] \in MediaExts
           /\ \A e \in resp.produced \ MediaExts : <<resp.id, e>> \notin DOMAIN temp

C10_OnlySweepDeletes ==
    [][\A f \in DOMAIN downloads :
          (f \notin DOMAIN downloads' \/ downloads'[f] # downloads[f])
             => \E s \in Sweeps :
                   /\ sw[s].pc = "downloads"
                   /\ sw[s].cur = f
                   /\ sw'[s].cur = NoName
                   /\ downloads[f] < sw[s].cutoff]_vars

C10_Witness ==
    \E r \in Gets :
        /\ get[r].st = "served"
        /\ get[r].name \in DOMAIN downloads
        /\ resp.id > get[r].name[1]

====
